---- MODULE Spec2Model ----
(***************************************************************************)
(* The ledger engine of payments-engine-rs: the validation pass            *)
(* (validator.rs), the conversion of deposits and withdrawals to cash      *)
(* flows (domain.rs, TryFrom), the account operations (domain.rs) and the  *)
(* fold over the events (engine.rs, register_transactions_for_customers).  *)
(*                                                                         *)
(* Spec      follows the fold of engine.rs:53-103 one event at a time,     *)
(*           over every validated input within the bounds.                 *)
(* SpecBatch follows run (engine.rs:12-36) on a whole input, invalid       *)
(*           inputs included: validation, registration, output.            *)
(***************************************************************************)
EXTENDS Integers, Sequences, FiniteSets, TLC

VARIABLES
    transactions,   \* run: the input read from the CSV (engine.rs:18)
    pc,             \* where the run is
    accounts,       \* register_transactions_for_customers: HashMap<u16, Account>
    cash_flows_hm,  \* register_transactions_for_customers: HashMap<u32, CashFlow>
    pending,        \* tx of the deposits and withdrawals the fold has not reached yet
    tx,             \* the event the fold processed last (the loop variable)
    outcome,        \* the branch of the loop body that event took (its log line)
    before,         \* the account of that event's client and the under_dispute
                    \* flag of its tx, as the event found them
    hist,           \* of the events folded so far: the clients they name, the
                    \* clients one of them took effect for, and the tx
                    \* of the withdrawals left out for insufficient funds
    n,              \* number of events folded so far
    result,         \* what run returns
    output          \* the rows handed to the writer

vars == <<transactions, pc, accounts, cash_flows_hm, pending, tx, outcome,
          before, hist, n, result, output>>

----------------------------------------------------------------------------
(* Bounds *)

\* largest amount of a deposit or withdrawal, in whole units
MaxAmount == 2
\* number of events the fold of Spec processes
MaxLen == 4
\* length of the inputs of SpecBatch
MaxBatch == 3

\* client ids (u16) and transaction ids (u32) of the events.  An event names
\* one client and one tx, and a cash flow one owner: two of each give every
\* relation between them (same or other client, same or other tx).
Clients == {1, 2}
TxIds == {1, 2}
\* SpecBatch is about the checks made before the fold, which read no client id
BatchClients == {1}

----------------------------------------------------------------------------
(* Decimal: num * 10^(-scale).  Balances are kept in units of 10^-4, which *)
(* is exact for every amount CashFlow::try_from admits (scale <= 4).       *)

MAX_SCALE == 4

RECURSIVE Pow10(_)
Pow10(k) == IF k <= 0 THEN 1 ELSE 10 * Pow10(k - 1)

Dec(num, scale) == [num |-> num, scale |-> scale]

Units(d) == d.num * Pow10(MAX_SCALE - d.scale)

None == << >>
Some(v) == << v >>

\* dto.rs: TransactionType
CashTypes == {"deposit", "withdrawal"}
DisputeTypes == {"dispute", "resolve", "chargeback"}

\* dto.rs: Transaction
Transaction(type, c, t, amount) ==
    [type |-> type, client |-> c, tx |-> t, amount |-> amount]

NoTx == Transaction("none", 0, 0, None)

Ok == [status |-> "ok", msg |-> "", tx |-> 0]
Err(msg, t) == [status |-> "err", msg |-> msg, tx |-> t]
Running == [status |-> "running", msg |-> "", tx |-> 0]

----------------------------------------------------------------------------
(* validator.rs *)

IsCash(t) == t.type = "deposit" \/ t.type = "withdrawal"

RECURSIVE deposits_and_withdrawals(_)
deposits_and_withdrawals(ts) ==
    IF ts = << >> THEN << >>
    ELSE (IF IsCash(Head(ts)) THEN << Head(ts) >> ELSE << >>)
         \o deposits_and_withdrawals(Tail(ts))

\* validate_transactions without the filter of lines 8-11
validate_every_type(ts) ==
    LET unique_ids == {ts[i].tx : i \in 1..Len(ts)}
    IN  IF Cardinality(unique_ids) # Len(ts)
        THEN Err("Transaction ids are not unique!", 0)
        ELSE Ok

validate_transactions(ts) ==
    LET dw == deposits_and_withdrawals(ts)
        unique_ids == {dw[i].tx : i \in 1..Len(dw)}
    IN  IF Cardinality(unique_ids) # Len(dw)
        THEN Err("Transaction ids are not unique!", 0)
        ELSE Ok

----------------------------------------------------------------------------
(* domain.rs: CashFlow *)

CashFlow(type, c, t, amount) ==
    [type |-> type, client |-> c, tx |-> t, amount |-> amount,
     under_dispute |-> FALSE]

\* try_from without the sign check of line 36
try_from_any_sign(value) ==
    IF value.amount # None /\ value.amount[1].scale <= MAX_SCALE
    THEN [ok |-> TRUE, err |-> Ok,
          cf |-> CashFlow(IF value.type = "deposit" THEN "Deposit" ELSE "Withdrawal",
                          value.client, value.tx, value.amount[1])]
    ELSE [ok |-> FALSE, err |-> Err("value is missing", value.tx),
          cf |-> CashFlow("none", 0, 0, Dec(0, 0))]

\* TryFrom<&Transaction> for CashFlow: [ok, cf] or [ok, err]
try_from(value) ==
    IF value.amount # None /\ value.amount[1].num >= 0
          /\ value.amount[1].scale <= MAX_SCALE
    THEN IF value.type = "deposit"
         THEN [ok |-> TRUE, err |-> Ok,
               cf |-> CashFlow("Deposit", value.client, value.tx, value.amount[1])]
         ELSE IF value.type = "withdrawal"
         THEN [ok |-> TRUE, err |-> Ok,
               cf |-> CashFlow("Withdrawal", value.client, value.tx, value.amount[1])]
         ELSE [ok |-> FALSE, err |-> Err("a generic error occurred", 0),
               cf |-> CashFlow("none", 0, 0, Dec(0, 0))]
    ELSE IF value.amount # None /\ value.amount[1].scale > MAX_SCALE
    THEN [ok |-> FALSE, err |-> Err("has a unsupported scale", value.tx),
          cf |-> CashFlow("none", 0, 0, Dec(0, 0))]
    ELSE IF value.amount # None
    THEN [ok |-> FALSE, err |-> Err("has a negative value", value.tx),
          cf |-> CashFlow("none", 0, 0, Dec(0, 0))]
    ELSE [ok |-> FALSE, err |-> Err("value is missing", value.tx),
          cf |-> CashFlow("none", 0, 0, Dec(0, 0))]

----------------------------------------------------------------------------
(* domain.rs: Account *)

Account_default ==
    [client |-> 0, available |-> 0, held |-> 0, total |-> 0, locked |-> FALSE]

client(acc, c) == [acc EXCEPT !.client = c]

\* deposit without the recomputation of total of line 86
deposit_stale_total(acc, cf) ==
    [acc EXCEPT !.available = @ + Units(cf.amount)]

deposit(acc, cf) ==
    IF cf.type = "Deposit"
    THEN LET available == acc.available + Units(cf.amount)
         IN  [acc EXCEPT !.available = available,
                         !.total = available + acc.held]
    ELSE acc

\* withdraw with < for the <= of line 102
withdraw_strict(acc, cf) ==
    IF Units(cf.amount) < acc.available
    THEN LET available == acc.available - Units(cf.amount)
         IN  [acc EXCEPT !.available = available,
                         !.total = available + acc.held]
    ELSE acc

withdraw(acc, cf) ==
    IF cf.type = "Withdrawal"
    THEN IF Units(cf.amount) <= acc.available
         THEN LET available == acc.available - Units(cf.amount)
              IN  [acc EXCEPT !.available = available,
                              !.total = available + acc.held]
         ELSE acc
    ELSE acc

dispute(acc, cf) ==
    [acc EXCEPT !.available = @ - Units(cf.amount),
                !.held = @ + Units(cf.amount)]

resolve(acc, cf) ==
    [acc EXCEPT !.held = @ - Units(cf.amount),
                !.available = @ + Units(cf.amount)]

chargeback(acc, cf) ==
    [acc EXCEPT !.locked = TRUE,
                !.held = @ - Units(cf.amount),
                !.total = @ - Units(cf.amount)]

\* Account::insert is called by the fold (engine.rs:67) for a deposit or a
\* withdrawal; it applies the cash flow by its kind.
insert(acc, cf) ==
    IF cf.type = "Deposit" THEN deposit(acc, cf) ELSE withdraw(acc, cf)

\* AccountResponse::from(Account): the five fields of the account
AccountResponse_from(acc) == acc

----------------------------------------------------------------------------
(* engine.rs: register_transactions_for_customers *)

\* handle_dispute without the under_dispute test of line 119
handle_dispute_any_state(hm, t, acc, type) ==
    IF t.tx \in DOMAIN hm /\ hm[t.tx].client = t.client
    THEN [account |-> IF type = "resolve" THEN resolve(acc, hm[t.tx])
                      ELSE chargeback(acc, hm[t.tx]),
          outcome |-> "applied"]
    ELSE [account |-> acc, outcome |-> "does not exist"]

\* engine.rs:108-137.  The closure f the two call sites pass (lines 94 and 99)
\* is account.resolve for type "resolve" and account.chargeback for
\* "chargeback", on the account acc of the event's client.
handle_dispute(hm, t, acc, type) ==
    IF t.tx \in DOMAIN hm
    THEN IF hm[t.tx].client = t.client /\ hm[t.tx].under_dispute
         THEN [account |-> IF type = "resolve" THEN resolve(acc, hm[t.tx])
                           ELSE chargeback(acc, hm[t.tx]),
               outcome |-> "applied"]
         ELSE [account |-> acc,
               outcome |-> "not under dispute or related to wrong client"]
    ELSE [account |-> acc, outcome |-> "does not exist"]

\* engine.rs:54-56: accounts.entry(tx.client).or_insert(default.client(..))
entry_or_insert(accs, c) ==
    IF c \in DOMAIN accs THEN accs ELSE (c :> client(Account_default, c)) @@ accs

\* the Dispute branch without the owner check of lines 76 and 79
dispute_branch_any_client(hm, t, acc) ==
    IF t.tx \in DOMAIN hm
    THEN IF ~hm[t.tx].under_dispute
         THEN [account |-> dispute(acc, hm[t.tx]), outcome |-> "disputed"]
         ELSE [account |-> acc, outcome |-> "already under dispute"]
    ELSE [account |-> acc, outcome |-> "non-existing or related to wrong client"]

\* the Dispute branch applied to deposits only
dispute_branch_deposits_only(hm, t, acc) ==
    IF t.tx \in DOMAIN hm /\ hm[t.tx].client = t.client
          /\ hm[t.tx].type = "Deposit"
    THEN IF ~hm[t.tx].under_dispute
         THEN [account |-> dispute(acc, hm[t.tx]), outcome |-> "disputed"]
         ELSE [account |-> acc, outcome |-> "already under dispute"]
    ELSE [account |-> acc, outcome |-> "non-existing or related to wrong client"]

\* engine.rs:72-92: the Dispute branch
dispute_branch(hm, t, acc) ==
    IF t.tx \in DOMAIN hm /\ hm[t.tx].client = t.client
    THEN IF ~hm[t.tx].under_dispute
         THEN [account |-> dispute(acc, hm[t.tx]), outcome |-> "disputed"]
         ELSE [account |-> acc, outcome |-> "already under dispute"]
    ELSE [account |-> acc, outcome |-> "non-existing or related to wrong client"]

GenericError == "a generic error has occurred"

\* engine.rs:64-71: the Deposit | Withdrawal branch
cash_branch(hm, t, acc) ==
    IF t.tx \in DOMAIN hm
    THEN [account |-> insert(acc, hm[t.tx]), outcome |-> "inserted"]
    ELSE [account |-> acc, outcome |-> GenericError]

\* the loop body with a dispute applied to the account of the cash flow's owner
\* instead of the account of the event's client
loop_body_owner(accs, hm, t) ==
    LET accs1 == entry_or_insert(accs, t.client)
        owner == IF t.tx \in DOMAIN hm THEN hm[t.tx].client ELSE t.client
        accs2 == entry_or_insert(accs1, owner)
    IN  IF t.type = "dispute" /\ t.tx \in DOMAIN hm
        THEN [accounts |-> [accs2 EXCEPT ![owner] = dispute(@, hm[t.tx])],
              cash_flows_hm |-> hm, outcome |-> "disputed"]
        ELSE IF t.type \in CashTypes /\ t.tx \in DOMAIN hm
        THEN [accounts |-> [accs1 EXCEPT ![t.client] = insert(@, hm[t.tx])],
              cash_flows_hm |-> hm, outcome |-> "inserted"]
        ELSE [accounts |-> accs1, cash_flows_hm |-> hm,
              outcome |-> "does not exist"]

\* engine.rs:53-103: the body of the loop, for the event t
loop_body(accs, hm, t) ==
    LET accs1 == entry_or_insert(accs, t.client)
        account == accs1[t.client]
        r == CASE t.type \in CashTypes -> cash_branch(hm, t, account)
               [] t.type = "dispute" -> dispute_branch(hm, t, account)
               [] t.type = "resolve" -> handle_dispute(hm, t, account, "resolve")
               [] OTHER -> handle_dispute(hm, t, account, "chargeback")
    IN  IF account.locked
        THEN [accounts |-> accs1, cash_flows_hm |-> hm,
              outcome |-> "locked account"]
        ELSE [accounts |-> [accs1 EXCEPT ![t.client] = r.account],
              cash_flows_hm |-> hm, outcome |-> r.outcome]

\* rows without the accounts that hold nothing
rows_nonempty(accs) ==
    {AccountResponse_from(accs[c]) : c \in {d \in DOMAIN accs : accs[d].total # 0}}

\* engine.rs:105: accounts.into_values().map(AccountResponse::from).collect()
rows(accs) == {AccountResponse_from(accs[c]) : c \in DOMAIN accs}

\* engine.rs:53-103: the loop over a whole input, stopping at the `?` of line 68
RECURSIVE fold(_, _)
fold(st, ts) ==
    IF ts = << >> \/ st.outcome = GenericError THEN st
    ELSE fold(loop_body(st.accounts, st.cash_flows_hm, Head(ts)), Tail(ts))

\* the cash-flow pass reporting the last failure instead of the first
cash_flows_last_error(ts) ==
    LET dw == deposits_and_withdrawals(ts)
        bad == {i \in 1..Len(dw) : ~try_from(dw[i]).ok}
    IN  IF bad = {}
        THEN [ok |-> TRUE, err |-> Ok,
              cfs |-> [i \in 1..Len(dw) |-> try_from(dw[i]).cf]]
        ELSE [ok |-> FALSE,
              err |-> try_from(dw[CHOOSE i \in bad : \A j \in bad : i >= j]).err,
              cfs |-> << >>]

\* the cash-flow pass keeping the deposits only
cash_flows_deposits_only(ts) ==
    LET dw == SelectSeq(deposits_and_withdrawals(ts),
                        LAMBDA t : t.type = "deposit")
        bad == {i \in 1..Len(dw) : ~try_from(dw[i]).ok}
    IN  IF bad = {}
        THEN [ok |-> TRUE, err |-> Ok,
              cfs |-> [i \in 1..Len(dw) |-> try_from(dw[i]).cf]]
        ELSE [ok |-> FALSE,
              err |-> try_from(dw[CHOOSE i \in bad : \A j \in bad : i <= j]).err,
              cfs |-> << >>]

\* engine.rs:44-48: map(CashFlow::try_from).collect::<Result<Vec<_>>>()
cash_flows(ts) ==
    LET dw == deposits_and_withdrawals(ts)
        bad == {i \in 1..Len(dw) : ~try_from(dw[i]).ok}
    IN  IF bad = {}
        THEN [ok |-> TRUE, err |-> Ok,
              cfs |-> [i \in 1..Len(dw) |-> try_from(dw[i]).cf]]
        ELSE [ok |-> FALSE,
              err |-> try_from(dw[CHOOSE i \in bad : \A j \in bad : i <= j]).err,
              cfs |-> << >>]

\* engine.rs:50-51: into_iter().map(|cf| (cf.tx, cf)).collect(); a later entry
\* replaces an earlier one with the same key
collect_hm(cfs) ==
    [t \in {cfs[i].tx : i \in 1..Len(cfs)} |->
        cfs[CHOOSE i \in 1..Len(cfs) :
                /\ cfs[i].tx = t
                /\ \A j \in 1..Len(cfs) : cfs[j].tx = t => j <= i]]

\* engine.rs:38-106
register_transactions_for_customers(ts) ==
    LET pre == cash_flows(ts)
        st == fold([accounts |-> << >>, cash_flows_hm |-> collect_hm(pre.cfs),
                    outcome |-> ""], ts)
    IN  IF ~pre.ok
        THEN [result |-> pre.err, accounts |-> << >>, cash_flows_hm |-> << >>,
              outcome |-> ""]
        ELSE [result |-> IF st.outcome = GenericError
                         THEN Err(GenericError, 0) ELSE Ok,
              accounts |-> st.accounts, cash_flows_hm |-> st.cash_flows_hm,
              outcome |-> st.outcome]

----------------------------------------------------------------------------
(* Spec: the fold, one event at a time.  The cash-flow table is built from *)
(* the whole input before the loop starts (engine.rs:44-51), so Init draws *)
(* the table of a validated input and the loop then meets each deposit and *)
(* withdrawal of that table exactly once, in any order and interleaved     *)
(* with any disputes, resolves and chargebacks.                            *)

NoBefore == [account |-> Account_default, under_dispute |-> FALSE]

NoHist == [clients |-> {}, applied |-> {}, skipped |-> {}]

\* the amount of the events of the tests of engine.rs, in whole units
TestAmount == 10

ValidAmounts == {Dec(k, 0) : k \in 0..MaxAmount} \cup {Dec(TestAmount, 0)}

Init ==
    /\ transactions = << >>
    /\ pc = "fold"
    /\ accounts = << >>
    /\ \E S \in SUBSET TxIds :
         \E f \in [S -> CashTypes \X Clients \X ValidAmounts] :
            cash_flows_hm =
                [t \in S |->
                    try_from(Transaction(f[t][1], f[t][2], t, Some(f[t][3]))).cf]
    /\ pending = DOMAIN cash_flows_hm
    /\ tx = NoTx
    /\ outcome = ""
    /\ before = NoBefore
    /\ hist = NoHist
    /\ n = 0
    /\ result = Running
    /\ output = {}

\* What the event t finds: the account line 54-56 hands it, the flag of its tx
Found(accs, hm, t) ==
    [account |-> entry_or_insert(accs, t.client)[t.client],
     under_dispute |-> t.tx \in DOMAIN hm /\ hm[t.tx].under_dispute]

\* The withdrawal t is left out by Account::withdraw (domain.rs:105-110)
LeftOut(found, hm, t) ==
    /\ t.type = "withdrawal" /\ t.tx \in DOMAIN hm
    /\ ~found.account.locked
    /\ Units(hm[t.tx].amount) > found.account.available

\* The event t took a branch that applies it to the account
TookEffect(found, hm, t, out) ==
    /\ out \in {"inserted", "disputed", "applied"}
    /\ ~LeftOut(found, hm, t)

Record(h, found, hm, t, out) ==
    [clients |-> h.clients \cup {t.client},
     applied |-> IF TookEffect(found, hm, t, out)
                 THEN h.applied \cup {t.client} ELSE h.applied,
     skipped |-> IF LeftOut(found, hm, t)
                 THEN h.skipped \cup {t.tx} ELSE h.skipped]

\* One turn of the loop of engine.rs:53-103 on the event t
Step(t) ==
    /\ pc = "fold"
    /\ n < MaxLen
    /\ LET r == loop_body(accounts, cash_flows_hm, t)
       IN  /\ accounts' = r.accounts
           /\ cash_flows_hm' = r.cash_flows_hm
           /\ outcome' = r.outcome
           /\ hist' = Record(hist, Found(accounts, cash_flows_hm, t),
                             cash_flows_hm, t, r.outcome)
           /\ pc' = IF r.outcome = GenericError THEN "failed" ELSE "fold"
           /\ result' = IF r.outcome = GenericError
                        THEN Err(GenericError, 0) ELSE result
    /\ tx' = t
    /\ before' = Found(accounts, cash_flows_hm, t)
    /\ n' = n + 1
    /\ UNCHANGED <<transactions, output>>

\* The event of the input that made the cash flow cf (a validated input has
\* exactly one per tx)
EventOf(cf) ==
    Transaction(IF cf.type = "Deposit" THEN "deposit" ELSE "withdrawal",
                cf.client, cf.tx, Some(cf.amount))

Deposit ==
    \E t \in pending :
        /\ cash_flows_hm[t].type = "Deposit"
        /\ Step(EventOf(cash_flows_hm[t]))
        /\ pending' = pending \ {t}

Withdrawal ==
    \E t \in pending :
        /\ cash_flows_hm[t].type = "Withdrawal"
        /\ Step(EventOf(cash_flows_hm[t]))
        /\ pending' = pending \ {t}

Dispute ==
    \E c \in Clients, t \in TxIds :
        /\ Step(Transaction("dispute", c, t, None))
        /\ UNCHANGED pending

Resolve ==
    \E c \in Clients, t \in TxIds :
        /\ Step(Transaction("resolve", c, t, None))
        /\ UNCHANGED pending

Chargeback ==
    \E c \in Clients, t \in TxIds :
        /\ Step(Transaction("chargeback", c, t, None))
        /\ UNCHANGED pending

\* engine.rs:105 and 29-35: the input is exhausted, the rows are written
Finish ==
    /\ pc = "fold"
    /\ pending = {}
    /\ pc' = "done"
    /\ result' = Ok
    /\ output' = rows(accounts)
    /\ UNCHANGED <<transactions, accounts, cash_flows_hm, pending, tx, outcome, before, hist, n>>

Next == Deposit \/ Withdrawal \/ Dispute \/ Resolve \/ Chargeback \/ Finish

Spec == Init /\ [][Next]_vars

----------------------------------------------------------------------------
(* SpecBatch: run (engine.rs:12-36) on a whole input *)

BatchAmounts ==
    {None, Some(Dec(-1, 0)), Some(Dec(112345, 5)), Some(Dec(1, 0)),
     Some(Dec(15000, 4))}

BatchEvents ==
    {Transaction(ty, c, t, a) :
        ty \in CashTypes, c \in BatchClients, t \in TxIds, a \in BatchAmounts}
    \cup {Transaction(ty, c, t, None) :
        ty \in DisputeTypes, c \in BatchClients, t \in TxIds}

BatchInputs == UNION {[1..k -> BatchEvents] : k \in 0..MaxBatch}

InitBatch ==
    /\ transactions \in BatchInputs
    /\ pc = "validate"
    /\ accounts = << >>
    /\ cash_flows_hm = << >>
    /\ pending = {}
    /\ tx = NoTx
    /\ outcome = ""
    /\ before = NoBefore
    /\ hist = NoHist
    /\ n = 0
    /\ result = Running
    /\ output = {}

\* engine.rs:22-23
Validate ==
    /\ pc = "validate"
    /\ LET r == validate_transactions(transactions)
       IN  /\ pc' = IF r.status = "ok" THEN "register" ELSE "failed"
           /\ result' = IF r.status = "ok" THEN result ELSE r
    /\ UNCHANGED <<transactions, accounts, cash_flows_hm, pending, tx, outcome,
                   before, hist, n, output>>

\* engine.rs:27
Register ==
    /\ pc = "register"
    /\ LET r == register_transactions_for_customers(transactions)
       IN  /\ pc' = IF r.result.status = "ok" THEN "write" ELSE "failed"
           /\ result' = IF r.result.status = "ok" THEN result ELSE r.result
           /\ accounts' = r.accounts
           /\ cash_flows_hm' = r.cash_flows_hm
           /\ outcome' = r.outcome
           /\ n' = IF r.result.status = "ok" THEN Len(transactions) ELSE n
    /\ UNCHANGED <<transactions, pending, tx, before, hist, output>>

\* engine.rs:29-35
Write ==
    /\ pc = "write"
    /\ pc' = "done"
    /\ output' = rows(accounts)
    /\ result' = Ok
    /\ UNCHANGED <<transactions, accounts, cash_flows_hm, pending, tx, outcome, before, hist, n>>

NextBatch == Validate \/ Register \/ Write

SpecBatch == InitBatch /\ [][NextBatch]_vars

----------------------------------------------------------------------------
(* Properties *)

\* The event processed last was folded by a turn of the loop
Folded == n > 0 /\ tx # NoTx

\* The cash flow the last event names, when there is one
Cf == cash_flows_hm[tx.tx]
Known == tx.tx \in DOMAIN cash_flows_hm
Owned == Known /\ Cf.client = tx.client

\* The next step folds an event of type ty
Folds(ty) == n' = n + 1 /\ tx'.type = ty

\* The next step folds an event of type ty for the client and tx of the last event
FoldsSame(ty) == Folds(ty) /\ tx'.client = tx.client /\ tx'.tx = tx.tx

\* C1: in every reachable state of the fold every account has
\* total = available + held.
C1_TotalIsAvailablePlusHeld ==
    \A c \in DOMAIN accounts :
        accounts[c].total = accounts[c].available + accounts[c].held

\* C1 witness: a dispute has moved funds to held on an account that has also
\* seen money come in
C1_Witness ==
    /\ Folded /\ outcome = "disputed"
    /\ accounts[tx.client].held > 0
    /\ accounts[tx.client].total > 0
    /\ accounts[tx.client].available >= 0

\* C3: validation fails exactly when two deposit/withdrawal events share a
\* tx (events of the other three kinds never count), and then no account is
\* created and no row is written.
NotUnique == "Transaction ids are not unique!"

SharedCashTx ==
    \E i, j \in 1..Len(transactions) :
        /\ i < j
        /\ transactions[i].type \in CashTypes
        /\ transactions[j].type \in CashTypes
        /\ transactions[i].tx = transactions[j].tx

C3_ValidationFailsIffSharedCashTx ==
    pc # "validate" =>
        /\ (result.msg = NotUnique) <=> SharedCashTx
        /\ SharedCashTx => pc = "failed" /\ accounts = << >> /\ output = {}

\* C3 witness: a batch rejected for two deposits/withdrawals with one tx
C3_Witness ==
    /\ pc = "failed" /\ result.msg = NotUnique
    /\ SharedCashTx
    /\ accounts = << >> /\ output = {}

\* C4: a deposit or withdrawal with a missing, negative or over-scaled amount
\* anywhere in the input fails the run, and no event of the batch is applied.
BadAmount(t) ==
    /\ t.type \in CashTypes
    /\ \/ t.amount = None
       \/ t.amount # None /\ t.amount[1].num < 0
       \/ t.amount # None /\ t.amount[1].scale > 4

HasBadAmount == \E i \in 1..Len(transactions) : BadAmount(transactions[i])

C4_BadAmountFailsWholeRun ==
    HasBadAmount =>
        /\ accounts = << >> /\ output = {}
        /\ pc \in {"validate", "register", "failed"}
        /\ pc = "failed" => result.status = "err"

\* C4 witness: the run failed in the cash-flow pass on an amount that comes
\* after a well-formed deposit and a dispute of it
C4_Witness ==
    /\ pc = "failed" /\ result.msg # NotUnique /\ result.status = "err"
    /\ Len(transactions) = 3
    /\ transactions[1].type = "deposit" /\ ~BadAmount(transactions[1])
    /\ transactions[2].type = "dispute"
    /\ transactions[2].tx = transactions[1].tx
    /\ BadAmount(transactions[3])
    /\ accounts = << >>

\* C5: a Dispute on an unlocked account for a cash flow of the same client
\* that is not under dispute moves the amount from available to held, leaves
\* total and locked alone, and sets the cash flow's under_dispute.
C5_DisputeApplies ==
    (/\ Folded /\ tx.type = "dispute"
     /\ ~before.account.locked
     /\ Owned /\ ~before.under_dispute)
    => /\ accounts[tx.client].available
            = before.account.available - Units(Cf.amount)
       /\ accounts[tx.client].held = before.account.held + Units(Cf.amount)
       /\ accounts[tx.client].total = before.account.total
       /\ accounts[tx.client].locked = before.account.locked
       /\ Cf.under_dispute = TRUE

\* C6: a Resolve right after an applied Dispute, for the same tx and client,
\* puts the account and the under_dispute flag back to what they were before
\* the Dispute.
C6_ResolveUndoesDispute ==
    [][(outcome = "disputed" /\ FoldsSame("resolve"))
        => /\ accounts'[tx.client] = before.account
           /\ cash_flows_hm'[tx.tx].under_dispute = before.under_dispute]_vars

\* C7: a Chargeback on an unlocked account for a cash flow of the same client
\* that is under dispute (its flag is set, or a Dispute of it has just been
\* applied) takes the amount off held and total, leaves available alone,
\* locks the account and clears under_dispute.
C7_ChargebackApplies ==
    [][(/\ \/ outcome = "disputed"
           \/ Known /\ Cf.under_dispute
        /\ FoldsSame("chargeback")
        /\ Owned /\ ~accounts[tx.client].locked)
        => /\ accounts'[tx.client].held
                = accounts[tx.client].held - Units(Cf.amount)
           /\ accounts'[tx.client].total
                = accounts[tx.client].total - Units(Cf.amount)
           /\ accounts'[tx.client].available = accounts[tx.client].available
           /\ accounts'[tx.client].locked = TRUE
           /\ cash_flows_hm'[tx.tx].under_dispute = FALSE]_vars

\* C8: a Dispute for a cash flow that is already under dispute changes
\* neither the account nor the cash flow: a Dispute repeated after an applied
\* Dispute has no further effect.
C8_RepeatedDisputeIsSkipped ==
    [][(outcome = "disputed" /\ FoldsSame("dispute"))
        => /\ accounts' = accounts
           /\ cash_flows_hm' = cash_flows_hm]_vars

\* C9: a Withdrawal on an unlocked account is applied exactly when
\* amount <= available, taking amount off available and total; otherwise the
\* account is unchanged; the run does not fail either way.
C9_WithdrawalIffFunds ==
    (Folded /\ tx.type = "withdrawal" /\ ~before.account.locked)
    => /\ Known
       /\ pc # "failed" /\ result.status # "err"
       /\ IF Units(Cf.amount) <= before.account.available
          THEN accounts[tx.client] =
                  [before.account EXCEPT
                      !.available = @ - Units(Cf.amount),
                      !.total = @ - Units(Cf.amount)]
          ELSE accounts[tx.client] = before.account

\* C9 witness: a withdrawal of exactly the available funds was applied
C9_Witness ==
    /\ Folded /\ tx.type = "withdrawal" /\ pc = "fold"
    /\ Units(Cf.amount) > 0
    /\ Units(Cf.amount) = before.account.available
    /\ accounts[tx.client].available = 0
    /\ accounts[tx.client].total = before.account.total - Units(Cf.amount)

\* C10: a Dispute, Resolve or Chargeback naming an unknown tx, or a tx of
\* another client, is skipped: no error, every existing account and every
\* cash flow unchanged, the event's client keeps (or gets, with zero
\* balances) its account, and the loop goes on.
C10_BadReferenceIsSkipped ==
    [][(/\ n' = n + 1
        /\ tx'.type \in DisputeTypes
        /\ \/ tx'.tx \notin DOMAIN cash_flows_hm
           \/ cash_flows_hm[tx'.tx].client # tx'.client)
        => /\ pc' = "fold" /\ result' = result
           /\ cash_flows_hm' = cash_flows_hm
           /\ \A c \in DOMAIN accounts : accounts'[c] = accounts[c]
           /\ accounts'[tx'.client] =
                IF tx'.client \in DOMAIN accounts THEN accounts[tx'.client]
                ELSE [client |-> tx'.client, available |-> 0, held |-> 0,
                      total |-> 0, locked |-> FALSE]
           /\ DOMAIN accounts' = DOMAIN accounts \cup {tx'.client}]_vars

\* C10 witness: a dispute by a client of a cash flow of another client, whose
\* deposit stays available; the loop is still running
C10_Witness ==
    /\ Folded /\ tx.type = "dispute" /\ pc = "fold"
    /\ Known /\ Cf.client # tx.client
    /\ Cf.client \in DOMAIN accounts
    /\ accounts[Cf.client].available > 0
    /\ accounts[Cf.client].held = 0
    /\ accounts[tx.client].held = 0

\* An account with the balances given in whole units
Balances(c, available, held, total, locked) ==
    [client |-> c, available |-> available * Pow10(MAX_SCALE),
     held |-> held * Pow10(MAX_SCALE), total |-> total * Pow10(MAX_SCALE),
     locked |-> locked]

\* The events folded so far change nothing of the accounts in DOMAIN accounts
\* but create the account of client c if it was not there
OnlyCreates(c) ==
    /\ \A d \in DOMAIN accounts : accounts'[d] = accounts[d]
    /\ DOMAIN accounts' = DOMAIN accounts \cup {c}
    /\ accounts'[c] = IF c \in DOMAIN accounts THEN accounts[c]
                      ELSE Balances(c, 0, 0, 0, FALSE)

\* Scenario E: the input is Deposit(client 1, tx 1, amount 10) followed by
\* Dispute(client 2, tx 1), and both have been folded
ScenarioE ==
    /\ n = 2 /\ pending = {}
    /\ DOMAIN cash_flows_hm = {1}
    /\ cash_flows_hm[1].type = "Deposit"
    /\ cash_flows_hm[1].client = 1
    /\ cash_flows_hm[1].amount = Dec(TestAmount, 0)
    /\ tx = Transaction("dispute", 2, 1, None)

\* C11 as claimed: after Scenario E client 1 has available 0, held 10,
\* total 10 and client 2 has zero balances, both unlocked.
C11_ScenarioE_AsClaimed ==
    ScenarioE =>
        accounts = (1 :> Balances(1, 0, TestAmount, TestAmount, FALSE))
                   @@ (2 :> Balances(2, 0, 0, 0, FALSE))

\* C11 as amended: after Scenario E client 1 has available 10, held 0,
\* total 10 (the dispute by client 2 is ignored) and client 2 has zero
\* balances, both unlocked; these are the rows written.
C11_ScenarioE ==
    ScenarioE =>
        /\ accounts = (1 :> Balances(1, TestAmount, 0, TestAmount, FALSE))
                      @@ (2 :> Balances(2, 0, 0, 0, FALSE))
        /\ pc = "done" =>
              output = {Balances(1, TestAmount, 0, TestAmount, FALSE),
                        Balances(2, 0, 0, 0, FALSE)}

\* C11 witness: Scenario E has run to its end
C11_Witness == ScenarioE /\ pc = "done" /\ result = Ok

\* C12: the output of a validated input has exactly one row per client named
\* by an event of the input, and the row of a client all of whose events were
\* ignored has zero balances and is unlocked.
C12_OneRowPerClient ==
    pc = "done" =>
        /\ {r.client : r \in output} = hist.clients
        /\ Cardinality(output) = Cardinality(hist.clients)
        /\ \A c \in hist.clients \ hist.applied :
              Balances(c, 0, 0, 0, FALSE) \in output

\* C12 witness: an output with the row of a client whose events took effect
\* and the row of a client whose events were all ignored
C12_Witness ==
    /\ pc = "done"
    /\ hist.clients = {1, 2} /\ hist.applied = {1}
    /\ hist.skipped # {}
    /\ Cardinality(output) = 2
    /\ \E r \in output : r.client = 1 /\ r.total > 0

\* C13: locked goes from false to true only in the step of a Chargeback by
\* the client for a cash flow it owns that is under dispute; a Resolve or
\* Chargeback for a cash flow that is not under dispute changes no account.
C13_LockOnlyByChargeback ==
    [][/\ \A c \in DOMAIN accounts' :
            (accounts'[c].locked /\ (c \in DOMAIN accounts => ~accounts[c].locked))
            => /\ Folds("chargeback") /\ tx'.client = c
               /\ tx'.tx \in DOMAIN cash_flows_hm
               /\ cash_flows_hm[tx'.tx].client = c
               /\ cash_flows_hm[tx'.tx].under_dispute
       /\ (/\ n' = n + 1
           /\ tx'.type \in {"resolve", "chargeback"}
           /\ tx'.tx \in DOMAIN cash_flows_hm
           /\ ~cash_flows_hm[tx'.tx].under_dispute)
          => OnlyCreates(tx'.client)]_vars

\* C13 witness: a Chargeback by the owner of a cash flow that is not under
\* dispute has left the owner's funded account as it was, unlocked
C13_Witness ==
    /\ Folded /\ tx.type = "chargeback"
    /\ Owned /\ ~before.under_dispute
    /\ outcome = "not under dispute or related to wrong client"
    /\ before.account.total > 0
    /\ accounts[tx.client] = before.account
    /\ ~accounts[tx.client].locked

\* The tx of the deposits and withdrawals that share their tx with another
DuplicatedTx ==
    {transactions[i].tx : i \in
        {i \in 1..Len(transactions) :
            /\ transactions[i].type \in CashTypes
            /\ \E j \in 1..Len(transactions) :
                  /\ j # i /\ transactions[j].type \in CashTypes
                  /\ transactions[j].tx = transactions[i].tx}}

BadAmountTx ==
    {transactions[i].tx : i \in
        {i \in 1..Len(transactions) : BadAmount(transactions[i])}}

FirstBadAmount ==
    CHOOSE i \in 1..Len(transactions) :
        /\ BadAmount(transactions[i])
        /\ \A j \in 1..(i - 1) : ~BadAmount(transactions[j])

\* C14 as claimed: whenever a batch is rejected, the failure names the
\* offending tx: the duplicated id, or the tx of the bad amount.
C14_FailureNamesTx_AsClaimed ==
    pc = "failed" => result.tx \in DuplicatedTx \cup BadAmountTx

\* C14 as amended: a batch rejected for an amount names the tx of the first
\* deposit or withdrawal, in input order, whose amount is missing, negative or
\* over-scaled; a batch rejected for a duplicated id names no tx.
C14_FailureNamesTx ==
    pc = "failed" =>
        IF SharedCashTx
        THEN result.msg = NotUnique /\ result.tx = 0
        ELSE /\ HasBadAmount
             /\ result.msg # NotUnique
             /\ result.tx = transactions[FirstBadAmount].tx

\* C14 witness: a batch with two bad amounts on different tx, after a
\* well-formed event, is rejected with the tx of the first of them
C14_Witness ==
    /\ pc = "failed" /\ ~SharedCashTx
    /\ Len(transactions) = 3
    /\ ~BadAmount(transactions[1])
    /\ BadAmount(transactions[2]) /\ BadAmount(transactions[3])
    /\ transactions[2].tx # transactions[3].tx
    /\ result.tx = transactions[2].tx

\* C15: a Dispute, Resolve or Chargeback naming a tx that no deposit or
\* withdrawal earlier in the input has introduced has no effect on any
\* account, even when the deposit or withdrawal comes later in the input:
\* an input of such an event followed by the deposit of its tx by the same
\* client ends with the deposit available and nothing held.
C15_LaterTxIsMissing ==
    (/\ pc \in {"write", "done"}
     /\ Len(transactions) = 2
     /\ transactions[1].type \in DisputeTypes
     /\ transactions[2].type = "deposit"
     /\ transactions[2].tx = transactions[1].tx
     /\ transactions[2].client = transactions[1].client)
    => LET c == transactions[2].client
           amount == Units(transactions[2].amount[1])
       IN  /\ accounts[c].available = amount
           /\ accounts[c].held = 0
           /\ accounts[c].total = amount

\* The next step folds a Dispute that the loop applies to the cash flow t:
\* by its owner, on an unlocked account, with t not under dispute
AppliesDispute(t) ==
    /\ Folds("dispute") /\ tx'.tx = t
    /\ cash_flows_hm[t].client = tx'.client
    /\ ~cash_flows_hm[t].under_dispute
    /\ (tx'.client \in DOMAIN accounts => ~accounts[tx'.client].locked)

\* The next step folds a Resolve or Chargeback that the loop applies to t
AppliesSettlement(t) ==
    /\ n' = n + 1 /\ tx'.type \in {"resolve", "chargeback"} /\ tx'.tx = t
    /\ cash_flows_hm[t].client = tx'.client
    /\ cash_flows_hm[t].under_dispute
    /\ (tx'.client \in DOMAIN accounts => ~accounts[tx'.client].locked)

\* C16: the under_dispute flag of a cash flow follows the dispute state
\* machine: a step that applies a Dispute by the owner takes it from false to
\* true and nothing else does; a step that applies a Resolve or Chargeback by
\* the owner takes it back to false and nothing else does, so that the tx can
\* then be disputed again.
C16_FlagFollowsStateMachine ==
    [][\A t \in DOMAIN cash_flows_hm :
          /\ AppliesDispute(t) => cash_flows_hm'[t].under_dispute
          /\ AppliesSettlement(t) => ~cash_flows_hm'[t].under_dispute
          /\ (~cash_flows_hm[t].under_dispute /\ cash_flows_hm'[t].under_dispute)
                => AppliesDispute(t)
          /\ (cash_flows_hm[t].under_dispute /\ ~cash_flows_hm'[t].under_dispute)
                => AppliesSettlement(t)]_vars

\* C17: a withdrawal left out for insufficient funds still has its cash
\* flow: a later Dispute of its tx by the same client, on an unlocked account
\* and with the cash flow not under dispute, moves the withdrawal's amount
\* from available to held.
C17_SkippedWithdrawalIsDisputable ==
    (/\ Folded /\ tx.type = "dispute"
     /\ tx.tx \in hist.skipped
     /\ Owned /\ ~before.under_dispute
     /\ ~before.account.locked)
    => /\ outcome = "disputed"
       /\ Cf.type = "Withdrawal"
       /\ accounts[tx.client] =
             [before.account EXCEPT !.available = @ - Units(Cf.amount),
                                    !.held = @ + Units(Cf.amount)]

\* C17 witness: the dispute of a left-out withdrawal has put its amount on
\* hold, taking available below zero
C17_Witness ==
    /\ Folded /\ tx.type = "dispute"
    /\ tx.tx \in hist.skipped /\ Owned
    /\ Units(Cf.amount) > 0
    /\ accounts[tx.client].held = before.account.held + Units(Cf.amount)
    /\ accounts[tx.client].available < 0

\* The input is Deposit(c, tx 1, amount 2), Withdrawal(c, tx 2, amount 1) and
\* a Dispute of tx 1, which left available -1, held 2, total 1, and then a
\* Chargeback of tx 1, all by client 1
ScenarioOverdrawn ==
    /\ n = 4 /\ pending = {}
    /\ DOMAIN cash_flows_hm = {1, 2}
    /\ cash_flows_hm[1].type = "Deposit" /\ cash_flows_hm[1].client = 1
    /\ cash_flows_hm[1].amount = Dec(2, 0)
    /\ cash_flows_hm[2].type = "Withdrawal" /\ cash_flows_hm[2].client = 1
    /\ cash_flows_hm[2].amount = Dec(1, 0)
    /\ hist.skipped = {}
    /\ before.account = Balances(1, -1, 2, 1, FALSE)
    /\ tx = Transaction("chargeback", 1, 1, None)

\* C18: balances are not clamped: after a Deposit, a Withdrawal of part of
\* it, and the Dispute and Chargeback of the deposit, available and total are
\* negative, the account is locked and total = available + held.
C18_ChargebackOverdraws ==
    ScenarioOverdrawn =>
        /\ accounts[1].available < 0
        /\ accounts[1].total < 0
        /\ accounts[1].locked
        /\ accounts[1].total = accounts[1].available + accounts[1].held

\* The state the last event found, as far as the loop body reads and writes it
AccountsBefore ==
    IF tx.client \in DOMAIN accounts
    THEN [accounts EXCEPT ![tx.client] = before.account]
    ELSE accounts

CashFlowsBefore ==
    IF Known
    THEN [cash_flows_hm EXCEPT ![tx.tx].under_dispute = before.under_dispute]
    ELSE cash_flows_hm

\* The last event and the next one, folded in the other order
Swapped ==
    LET first == loop_body(AccountsBefore, CashFlowsBefore, tx')
    IN  loop_body(first.accounts, first.cash_flows_hm, tx)

\* C19: accounts are independent per client: folding two adjacent events of
\* different clients in the other order gives the same accounts and the same
\* cash flows (so the final state is the same, the rest of the input being
\* folded from the same state).
C19_DifferentClientsCommute ==
    [][(/\ Folded /\ n' = n + 1
        /\ tx'.client # tx.client)
        => /\ Swapped.accounts = accounts'
           /\ Swapped.cash_flows_hm = cash_flows_hm']_vars

\* C19 witness: exactly two events have been folded, one after the other, each
\* with an effect on the account of a different client
C19_Witness ==
    /\ Folded /\ n = 2
    /\ hist.applied = {1, 2}
    /\ accounts[tx.client] # before.account
    /\ \E c \in DOMAIN accounts : c # tx.client /\ accounts[c].total > 0

\* C20: folding one event changes at most the account of the event's client
\* and the under_dispute flag of the cash flow of the event's tx; no other
\* account or cash flow changes, and no cash flow's amount, client or kind.
C20_Frame ==
    [][n' = n + 1
        => /\ \A c \in DOMAIN accounts \ {tx'.client} :
                 accounts'[c] = accounts[c]
           /\ DOMAIN accounts' = DOMAIN accounts \cup {tx'.client}
           /\ DOMAIN cash_flows_hm' = DOMAIN cash_flows_hm
           /\ \A t \in DOMAIN cash_flows_hm :
                 /\ t # tx'.tx => cash_flows_hm'[t] = cash_flows_hm[t]
                 /\ cash_flows_hm'[t].amount = cash_flows_hm[t].amount
                 /\ cash_flows_hm'[t].client = cash_flows_hm[t].client
                 /\ cash_flows_hm'[t].type = cash_flows_hm[t].type
                 /\ cash_flows_hm'[t].tx = cash_flows_hm[t].tx]_vars

\* C20 witness: a dispute has changed its client's account while the other
\* client holds funds and another cash flow exists
C20_Witness ==
    /\ Folded /\ outcome = "disputed"
    /\ accounts[tx.client] # before.account
    /\ \E c \in DOMAIN accounts : c # tx.client /\ accounts[c].available > 0
    /\ \E t \in DOMAIN cash_flows_hm : t # tx.tx

----------------------------------------------------------------------------
(* held against the cash flows under dispute *)

\* the amounts of the cash flows of the table hm with a tx in S, added up
RECURSIVE SumOfAmounts(_, _)
SumOfAmounts(hm, S) ==
    IF S = {} THEN 0
    ELSE LET t == CHOOSE u \in S : TRUE
         IN  Units(hm[t].amount) + SumOfAmounts(hm, S \ {t})

\* the cash flows owned by the client c whose under_dispute flag is true
UnderDisputeOf(c) ==
    {t \in DOMAIN cash_flows_hm :
        cash_flows_hm[t].client = c /\ cash_flows_hm[t].under_dispute}

\* C21: in every reachable state, each account's held is the sum of the
\* amounts of the cash flows its client owns that are under dispute.
\* Violated: an applied Dispute adds the amount to held and leaves the flag
\* false, so held is positive while no cash flow is under dispute.
C21_HeldIsSumUnderDispute ==
    \A c \in DOMAIN accounts :
        accounts[c].held = SumOfAmounts(cash_flows_hm, UnderDisputeOf(c))

----------------------------------------------------------------------------
(* the lookup of the Deposit | Withdrawal branch *)

\* the table the loop of register_transactions_for_customers starts from
TableOf(ts) == collect_hm(cash_flows(ts).cfs)

\* C22: for every input whose amounts pass the cash-flow pass, validated or
\* not, every Deposit and Withdrawal of the input finds an entry keyed by its
\* tx in the table the loop works on, and neither the fold nor the run ever
\* ends with the generic error of the Deposit | Withdrawal branch.
C22_GenericErrorUnreachable ==
    /\ cash_flows(transactions).ok =>
          \A i \in 1..Len(transactions) :
              transactions[i].type \in CashTypes =>
                  transactions[i].tx \in DOMAIN TableOf(transactions)
    /\ outcome # GenericError
    /\ result.msg # GenericError

\* C22 witness: a run is over whose input holds a deposit and ends with a
\* withdrawal, and the lookup of that withdrawal found its entry
C22_Witness ==
    /\ pc = "done" /\ result = Ok
    /\ Len(transactions) >= 2
    /\ transactions[Len(transactions)].type = "withdrawal"
    /\ \E i \in 1..Len(transactions) : transactions[i].type = "deposit"
    /\ outcome = "inserted"

====
